---- MODULE Spec2Model ----
(***************************************************************************)
(* navidrome-fm: the scrobble store (ScrobbleDB), the tiered matcher       *)
(* (NavidromeScrobbleMatcher.match_lastfm_tracks_for) and the              *)
(* match-scrobbles loop (command_match).                                   *)
(*                                                                         *)
(* Text is a sequence of one-character strings, so that lower-casing,      *)
(* feature trimming and difflib's matching are computed, not assumed.      *)
(***************************************************************************)
EXTENDS Integers, Sequences, FiniteSets, TLC

(* ------------------------------ text ----------------------------------- *)

\* SQL NULL / Python None.  No text is equal to it: text has one-character
\* elements only.
NULL == <<"NULL">>

UpperAZ == <<"A","B","C","D","E","F","G","H","I","J","K","L","M",
             "N","O","P","Q","R","S","T","U","V","W","X","Y","Z">>

LowerAZ == <<"a","b","c","d","e","f","g","h","i","j","k","l","m",
             "n","o","p","q","r","s","t","u","v","w","x","y","z">>

\* str.lower() on one character (ASCII)
lower_char(c) ==
    IF \E i \in 1..Len(UpperAZ) : UpperAZ[i] = c
    THEN LowerAZ[CHOOSE i \in 1..Len(UpperAZ) : UpperAZ[i] = c]
    ELSE c

\* str.lower()
lower(s) == [i \in 1..Len(s) |-> lower_char(s[i])]

\* Python's `x or ""` / `x or None` on a nullable text
or_empty(x) == IF x = NULL \/ x = <<>> THEN <<>> ELSE x

or_none(x) == IF x = NULL \/ x = <<>> THEN NULL ELSE x

FEAT == <<"f","e","a","t","."," ">>

FT == <<"f","t","."," ">>

\* the start positions of marker in t
Occurrences(marker, t) ==
    { i \in 1..(Len(t) - Len(marker) + 1) :
        SubSeq(t, i, i + Len(marker) - 1) = marker }

Max(S) == CHOOSE x \in S : \A y \in S : y <= x

Min(S) == CHOOSE x \in S : \A y \in S : x <= y

\* re.sub(r"^(.*)<marker>.*$", group 1, t): the greedy (.*) takes the longest
\* prefix that is still followed by the marker, which is the prefix before
\* the marker's last occurrence; a text without the marker is unchanged.
trim_marker(marker, t) ==
    IF Occurrences(marker, t) = {} THEN t
    ELSE SubSeq(t, 1, Max(Occurrences(marker, t)) - 1)

\* trim_feature: "feat. " first, then "ft. " on the result
trim_feature(t) == trim_marker(FT, trim_marker(FEAT, t))

(* ------------------------ difflib.SequenceMatcher ----------------------- *)

\* length of the common run of a from i and b from j, inside a[..ahi], b[..bhi]
RECURSIVE RunLen(_, _, _, _, _, _)
RunLen(a, b, i, j, ahi, bhi) ==
    IF i > ahi \/ j > bhi \/ a[i] # b[j] THEN 0
    ELSE 1 + RunLen(a, b, i + 1, j + 1, ahi, bhi)

\* every block of a[alo..ahi] and b[blo..bhi] that is taken as far right as
\* it goes: <<i, j, size>>
blocks(a, b, alo, ahi, blo, bhi) ==
    { <<i, j, RunLen(a, b, i, j, ahi, bhi)>> : i \in alo..ahi, j \in blo..bhi }

\* SequenceMatcher.find_longest_match(alo, ahi, blo, bhi) (no junk): the
\* longest block; of those the one starting earliest in a; of those the one
\* starting earliest in b; (alo, blo, 0) when nothing matches.  Bounds are
\* 1-based and inclusive.
longest_of(bs, alo, blo) ==
    IF \A m \in bs : m[3] = 0 THEN <<alo, blo, 0>>
    ELSE CHOOSE m \in bs : \A n \in bs :
            \/ m[3] > n[3]
            \/ m[3] = n[3] /\ m[1] < n[1]
            \/ m[3] = n[3] /\ m[1] = n[1] /\ m[2] <= n[2]

find_longest_match(a, b, alo, ahi, blo, bhi) ==
    longest_of(blocks(a, b, alo, ahi, blo, bhi), alo, blo)

\* sum of the sizes of SequenceMatcher.get_matching_blocks(): the longest
\* block m, then the same on what lies left of it and on what lies right of it
RECURSIVE matching_size(_, _, _, _, _, _)
around(a, b, alo, ahi, blo, bhi, m) ==
    IF m[3] = 0 THEN 0
    ELSE m[3]
         + matching_size(a, b, alo, m[1] - 1, blo, m[2] - 1)
         + matching_size(a, b, m[1] + m[3], ahi, m[2] + m[3], bhi)

matching_size(a, b, alo, ahi, blo, bhi) ==
    IF alo > ahi \/ blo > bhi THEN 0
    ELSE around(a, b, alo, ahi, blo, bhi, find_longest_match(a, b, alo, ahi, blo, bhi))

\* the same quotient with two empty texts given 0.0
ratio_empty_is_zero(a, b) ==
    IF Len(a) + Len(b) = 0 THEN <<0, 1>>
    ELSE <<2 * matching_size(a, b, 1, Len(a), 1, Len(b)), Len(a) + Len(b)>>

\* SequenceMatcher.ratio() = 2.0 * matches / (len(a) + len(b)), 1.0 when both
\* are empty, kept as the exact fraction <<numerator, denominator>>
ratio(a, b) ==
    IF Len(a) + Len(b) = 0 THEN <<1, 1>>
    ELSE <<2 * matching_size(a, b, 1, Len(a), 1, Len(b)), Len(a) + Len(b)>>

\* SequenceMatcher.find_longest_match().size over the whole of a and b
longest_common_run(a, b) == find_longest_match(a, b, 1, Len(a), 1, Len(b))[3]

\* r > p / q for a ratio r and a threshold written as the decimal p / q
ratio_gt(r, p, q) == r[1] * q > p * r[2]

(* ---------------------------- the two catalogs -------------------------- *)

T_Go == <<"G","o">>

T_go == <<"g","o">>

T_Got == <<"G","o","t">>

T_Gos == <<"G","o","s">>

T_Zz == <<"Z","z">>

T_M == <<"M">>

T_m == <<"m">>

T_Q == <<"Q">>

T_U == <<"U">>

T_u == <<"u">>

T_x == <<"x">>

T_G == <<"G">>

T_oM == <<"o","M">>

T_Gxo == <<"G","x","o">>

\* a title with the marker "ft. " twice
T_Goftft == <<"G","o","f","t","."," ","f","t","."," ">>

\* an album with the marker "ft. "
T_Uftx == <<"U","f","t","."," ","x">>

\* db_navidrome.media_file, in table order: NavidromeTrackEntry rows.  n1 has
\* no MusicBrainz id, n2 is a second library entry of the same song that has
\* one, n3 has no album.
MediaFile ==
    << [id |-> <<"n","1">>, title |-> T_Go, artist |-> T_M, album |-> T_U,
        mbz_recording_id |-> NULL],
       [id |-> <<"n","2">>, title |-> T_Go, artist |-> T_M, album |-> T_U,
        mbz_recording_id |-> T_x],
       [id |-> <<"n","3">>, title |-> T_Go, artist |-> T_M, album |-> NULL,
        mbz_recording_id |-> NULL] >>

\* what user.getrecenttracks can return (TrackModel: mbid, name, artist.name,
\* album.name; last.fm sends "" for a missing mbid or album)
RecentTracks ==
    { [mbid |-> T_x,  name |-> T_Zz,  artist |-> T_Q, album |-> <<>>],
      [mbid |-> T_x,  name |-> T_go,  artist |-> T_M, album |-> T_U],
      [mbid |-> <<>>, name |-> T_Go,  artist |-> T_M, album |-> T_u],
      [mbid |-> <<>>, name |-> T_Go,  artist |-> T_m, album |-> T_U],
      [mbid |-> <<>>, name |-> T_Got, artist |-> T_M, album |-> T_U],
      [mbid |-> <<>>, name |-> T_Gos, artist |-> T_M, album |-> T_U],
      [mbid |-> <<>>, name |-> T_G,   artist |-> T_oM, album |-> T_U],
      [mbid |-> <<>>, name |-> T_Gxo, artist |-> T_M, album |-> T_U],
      [mbid |-> <<>>, name |-> T_Goftft, artist |-> T_M, album |-> T_U],
      [mbid |-> <<>>, name |-> T_Go,  artist |-> T_M, album |-> T_Uftx],
      [mbid |-> <<>>, name |-> T_Go,  artist |-> T_M, album |-> T_U],
      [mbid |-> <<>>, name |-> T_Go,  artist |-> T_M, album |-> <<>>] }

\* the url of a TrackModel: a field track_id leaves out
Urls == {"u1", "u2"}

\* the ScrobbleModels the API can yield: a track of RecentTracks with its
\* other fields
Scrobbles == { [mbid |-> t.mbid, name |-> t.name, artist |-> t.artist,
                album |-> t.album, url |-> u] : t \in RecentTracks, u \in Urls }

\* bounds of the model
MaxTracks == 2

MaxUts == 1

MaxChoices == 2

\* track_id with the url among the fields that are hashed
track_id_with_url(s) == s.mbid \o s.name \o s.artist \o s.album \o <<s.url>>

\* TrackModel.track_id: the digest of mbid, name, artist.name and album.name
\* written one after the other; the digest itself is taken to be injective,
\* so the id is the text that is hashed
track_id(s) == s.mbid \o s.name \o s.artist \o s.album

(* ------------------------------- state ---------------------------------- *)

VARIABLES
    track,          \* table track, in rowid order: [id, title, artist, album, mbid]
    scrobble,       \* table scrobble: how many rows there are of each <<trackid, timestamp>>
    match,          \* table match: <<trackid, navidromeid>>
    blacklist,      \* table blacklist: <<trackid, navidromeid>>
    pc,             \* where command_match is: idle, iter, call, blacklist, returned, save
    resolve,        \* args.resolve of the running command_match
    fuzzy,          \* the fuzzy argument match_lastfm_tracks_for is called with
    cursor,         \* iter_unmatched: the next row of media_file to look at
    cur,            \* the track of the loop
    status,         \* the MatchStatus returned, or RAISED
    result,         \* the list returned with it
    tier,           \* the place that returned: id, exact, nofuzzy, fuzzy, operator, ...
    candidates,     \* the matches of match_ratio_sort after its filter (<<>> before)
    asked,          \* the candidates were printed and input() was called
    inp,            \* what input() returned: the comma-separated tokens
    pending,        \* what the running for loop has still to write
    counts,         \* track_count, matched_count, fail_count, uncertain_count
    err,            \* the exception that ended the command, or "none"
    ingested,       \* the last add_scrobble_from_api call, what it returned, and
                    \* the ScrobbleModel of the call before it
    at_call,        \* history: the match and blacklist tables when the call began
    scorer,         \* two texts and the ratios difflib gave for them, in the
                    \* two orders of the arguments (<<>> before the call)
    get             \* command_get_scrobbles: its arguments, the tracks of the
                    \* response, how many the loop has taken, its exit status,
                    \* and (history) the track and scrobble tables at its start

vars == <<track, scrobble, match, blacklist, pc, resolve, fuzzy, cursor, cur,
          status, result, tier, candidates, asked, inp, pending, counts, err,
          ingested, at_call, get, scorer>>

store == <<track, scrobble, match, blacklist>>

NoTrack == [id |-> <<>>, title |-> <<>>, artist |-> <<>>, album |-> NULL,
            mbz_recording_id |-> NULL]

NoTables == [match |-> {}, blacklist |-> {}]

\* no ScrobbleModel
NoScrobble == [mbid |-> <<>>, name |-> <<>>, artist |-> <<>>, album |-> <<>>, url |-> ""]

\* no add_scrobble_from_api call yet in this run
NoCall == [s |-> NoScrobble, prev |-> NoScrobble, uts |-> 0, new |-> FALSE]

\* no command_get_scrobbles is running
NoGet == [feed |-> <<>>, tail |-> "end", greedy |-> FALSE, pos |-> 1, rc |-> "none",
          stop |-> FALSE, before |-> [track |-> <<>>, scrobble |-> {}]]

ZeroCounts == [track_count |-> 0, matched_count |-> 0, fail_count |-> 0,
               uncertain_count |-> 0]

\* no ratio has been asked for
NoRatio == [a |-> <<>>, b |-> <<>>, ab |-> <<>>, ba |-> <<>>]

\* the store and the commands after construction
InitStore ==
    /\ track = <<>>
    /\ scrobble = <<>>
    /\ match = {}
    /\ blacklist = {}
    /\ pc = "idle"
    /\ resolve = FALSE
    /\ fuzzy = FALSE
    /\ cursor = 1
    /\ cur = NoTrack
    /\ status = "NONE"
    /\ result = <<>>
    /\ tier = "none"
    /\ candidates = <<>>
    /\ asked = FALSE
    /\ inp = <<>>
    /\ pending = <<>>
    /\ counts = ZeroCounts
    /\ err = "none"
    /\ ingested = NoCall
    /\ at_call = NoTables
    /\ get = NoGet

Init == InitStore /\ scorer = NoRatio

Range(s) == { s[i] : i \in 1..Len(s) }

(* ----------------------------- ScrobbleDB -------------------------------- *)

\* the row add_scrobble_from_api writes for s
track_row(s) ==
    [id |-> track_id(s), title |-> s.name, artist |-> s.artist,
     album |-> or_none(s.album), mbid |-> or_none(s.mbid)]

\* INSERT OR REPLACE INTO track: the row of a taken id is overwritten
insert_or_replace_track(tbl, row) ==
    IF \E r \in Range(tbl) : r.id = row.id
    THEN [i \in DOMAIN tbl |-> IF tbl[i].id = row.id THEN row ELSE tbl[i]]
    ELSE Append(tbl, row)

\* INSERT OR IGNORE INTO track: ignored when the primary key id is taken
insert_track(tbl, row) ==
    IF \E r \in Range(tbl) : r.id = row.id THEN tbl ELSE Append(tbl, row)

\* new only when the track has no scrobble row at all, whatever the timestamp
is_new_track(s, uts) == \A k \in DOMAIN scrobble : k[1] # track_id(s)

\* add_scrobble_from_api's return value: the scrobble row was inserted
is_new_scrobble(s, uts) == <<track_id(s), uts>> \notin DOMAIN scrobble

\* a plain INSERT INTO scrobble on a table without the primary key
insert_scrobble_again(tbl, row) ==
    IF row \in DOMAIN tbl THEN [tbl EXCEPT ![row] = @ + 1] ELSE tbl @@ (row :> 1)

\* INSERT OR IGNORE INTO scrobble: ignored when the primary key
\* (trackid, timestamp) is taken
insert_scrobble(tbl, row) ==
    IF row \in DOMAIN tbl THEN tbl ELSE tbl @@ (row :> 1)

\* add_scrobble_from_api(s), s.date.uts = uts
add_scrobble_from_api(s, uts) ==
    /\ pc = "idle"
    /\ Len(insert_track(track, track_row(s))) <= MaxTracks
    /\ track' = insert_track(track, track_row(s))
    /\ scrobble' = insert_scrobble(scrobble, <<track_id(s), uts>>)
    /\ ingested' = [s |-> s, prev |-> ingested.s, uts |-> uts,
                     new |-> is_new_scrobble(s, uts)]
    /\ UNCHANGED <<match, blacklist, pc, resolve, fuzzy, cursor, cur, status,
                   result, tier, candidates, asked, inp, pending, counts, err,
                   at_call, get, scorer>>

(* ---------------------- NavidromeScrobbleMatcher ------------------------- *)

\* is_blacklisted with the two ids in the other order
is_blacklisted_swapped(t1, t2) == <<t1.id, t2.id>> \in blacklist

\* is_blacklisted(t1, t2)
is_blacklisted(t1, t2) == <<t2.id, t1.id>> \in blacklist

\* iter_unmatched joining on match.trackid instead of match.navidromeid
is_unmatched_by_trackid(t1) == ~ \E m \in match : m[1] = t1.id

\* iter_unmatched's WHERE: media_file LEFT JOIN match ... WHERE t2.trackid IS NULL
is_unmatched(t1) == ~ \E m \in match : m[2] = t1.id

\* the MusicBrainz query with LIMIT 1
find_by_mbid_first(t1) ==
    LET Test(r) == /\ t1.mbz_recording_id # NULL
                   /\ r.mbid # NULL
                   /\ r.mbid = t1.mbz_recording_id
        found == SelectSeq(track, Test)
    IN  IF found = <<>> THEN <<>> ELSE <<found[1]>>

\* SELECT ... FROM track WHERE mbid=?  (= is never true of NULL)
find_by_mbid(t1) ==
    LET Test(r) == /\ t1.mbz_recording_id # NULL
                   /\ r.mbid # NULL
                   /\ r.mbid = t1.mbz_recording_id
    IN  SelectSeq(track, Test)

\* the exact query with IS in the place of = for the album: NULL IS NULL
find_exact_null_safe(t1) ==
    LET Test(r) == /\ r.title = t1.title
                   /\ r.artist = t1.artist
                   /\ \/ (t1.album = NULL /\ r.album = NULL)
                      \/ (t1.album # NULL /\ r.album # NULL /\ lower(r.album) = lower(t1.album))
    IN  SelectSeq(track, Test)

\* SELECT ... FROM track WHERE title=? AND artist=? AND album=? COLLATE NOCASE:
\* COLLATE binds to the last operand only, so album is compared without case
\* and title and artist are compared as they are
find_exact(t1) ==
    LET Test(r) == /\ r.title = t1.title
                   /\ r.artist = t1.artist
                   /\ t1.album # NULL
                   /\ r.album # NULL
                   /\ lower(r.album) = lower(t1.album)
    IN  SelectSeq(track, Test)

\* LastFMTrackEntry(id, title, artist, album or None, mbid=None)
fuzzy_entry(r) ==
    [id |-> r.id, title |-> r.title, artist |-> r.artist,
     album |-> or_none(r.album), mbid |-> NULL]

\* SELECT id, title, artist, album FROM track WHERE title=? OR artist=? OR album=?
find_by_any_field(t1) ==
    LET Test(r) == \/ r.title = t1.title
                   \/ r.artist = t1.artist
                   \/ (t1.album # NULL /\ r.album # NULL /\ r.album = t1.album)
        rows == SelectSeq(track, Test)
    IN  [i \in 1..Len(rows) |-> fuzzy_entry(rows[i])]

\* the defaults of match_lastfm_tracks_for: 0.9, 0.7 and 5
min_ratio_all == <<9, 10>>

min_ratio_each == <<7, 10>>

min_overlap == 5

\* matcher_for(t1, t2).ratio(): title and artist trimmed, album as it is, the
\* three written one after the other and lower-cased
matcher_for(t1, t2) ==
    ratio(lower(trim_feature(t1.title) \o trim_feature(t1.artist) \o or_empty(t1.album)),
          lower(trim_feature(t2.title) \o trim_feature(t2.artist) \o or_empty(t2.album)))

\* the pairs of min_match_ratio and enough_overlap
field_pairs(t1, t2) ==
    << <<trim_feature(t1.title), trim_feature(t2.title)>>,
       <<trim_feature(t1.artist), trim_feature(t2.artist)>>,
       <<or_empty(t1.album), or_empty(t2.album)>> >>

\* p <= q for two fractions
ratio_le(p, q) == p[1] * q[2] <= q[1] * p[2]

\* min(...) of a list of ratios
least_ratio(rs) ==
    rs[CHOOSE i \in DOMAIN rs : \A j \in DOMAIN rs : ratio_le(rs[i], rs[j])]

\* SequenceMatcher(None, a.lower(), b.lower()).ratio() for a, b in pairs
field_ratios(pairs) ==
    [i \in DOMAIN pairs |-> ratio(lower(pairs[i][1]), lower(pairs[i][2]))]

\* min_match_ratio(t1, t2): the least of the three field ratios
min_match_ratio(t1, t2) == least_ratio(field_ratios(field_pairs(t1, t2)))

\* all(find_longest_match().size >= min(len(a), len(b), min_overlap) for a, b in pairs)
all_overlap(pairs) ==
    \A i \in DOMAIN pairs :
        longest_common_run(lower(pairs[i][1]), lower(pairs[i][2]))
            >= Min({Len(pairs[i][1]), Len(pairs[i][2]), min_overlap})

\* enough_overlap(t1, t2)
enough_overlap(t1, t2) == all_overlap(field_pairs(t1, t2))

\* insert_by_ratio putting z before the pairs of its own ratio
insert_by_ratio_before_equal(rest, z) ==
    [i \in 1..(Len(rest) + 1) |->
        IF i <= Cardinality({ j \in DOMAIN rest : ~ ratio_le(rest[j].ratio, z.ratio) })
        THEN rest[i]
        ELSE IF i = 1 + Cardinality({ j \in DOMAIN rest : ~ ratio_le(rest[j].ratio, z.ratio) })
        THEN z
        ELSE rest[i - 1]]

\* where z goes in the sorted list rest: after everything whose ratio is not
\* below its own
insert_by_ratio(rest, z) ==
    [i \in 1..(Len(rest) + 1) |->
        IF i <= Cardinality({ j \in DOMAIN rest : ratio_le(z.ratio, rest[j].ratio) })
        THEN rest[i]
        ELSE IF i = 1 + Cardinality({ j \in DOMAIN rest : ratio_le(z.ratio, rest[j].ratio) })
        THEN z
        ELSE rest[i - 1]]

\* sorted(zip(matches, ratios), key=ratio, reverse=True): stable, so equal
\* ratios keep the order of the query
RECURSIVE sorted_by_ratio(_)
sorted_by_ratio(zs) ==
    IF Len(zs) = 0 THEN <<>>
    ELSE insert_by_ratio(sorted_by_ratio(SubSeq(zs, 1, Len(zs) - 1)), zs[Len(zs)])

\* every LastFMTrackEntry the fuzzy query can build from what can be ingested
Candidates == { fuzzy_entry(track_row(s)) : s \in Scrobbles }

\* matcher_for(t1, t2).ratio(), min_match_ratio(t1, t2) and enough_overlap(t1, t2)
\* of every pair of a media_file row and a candidate, computed once
scores ==
    [t1 \in Range(MediaFile) |->
        [t2 \in Candidates |->
            [ratio |-> matcher_for(t1, t2),
             min_ratio |-> min_match_ratio(t1, t2),
             overlap |-> enough_overlap(t1, t2)]]]

\* the filter of match_ratio_sort with the aggregate ratio in the place of
\* the least field ratio
passes_by_aggregate(t1, t2, sc) ==
    /\ ratio_gt(sc.ratio, min_ratio_each[1], min_ratio_each[2])
    /\ sc.overlap
    /\ ~ is_blacklisted(t1, t2)

\* the filter of match_ratio_sort, on the scores sc of the pair
passes(t1, t2, sc) ==
    /\ ratio_gt(sc.min_ratio, min_ratio_each[1], min_ratio_each[2])
    /\ sc.overlap
    /\ ~ is_blacklisted(t1, t2)

\* zip(matches, ratios)
zip_ratios(t1, matches) ==
    [i \in DOMAIN matches |-> [match |-> matches[i], ratio |-> scores[t1][matches[i]].ratio]]

\* match_ratio_sort after the filter: [match, ratio] pairs
match_ratio_sort(t1) ==
    LET Test(z) == passes(t1, z.match, scores[t1][z.match])
    IN  SelectSeq(sorted_by_ratio(zip_ratios(t1, find_by_any_field(t1))), Test)

\* acceptable keeping the best pair only
acceptable_best(mrs) ==
    IF Len(mrs) > 0 /\ ratio_gt(mrs[1].ratio, min_ratio_all[1], min_ratio_all[2])
    THEN <<mrs[1]>>
    ELSE <<>>

\* acceptable: the pairs above min_ratio_all
acceptable(mrs) ==
    LET Test(z) == ratio_gt(z.ratio, min_ratio_all[1], min_ratio_all[2])
    IN  SelectSeq(mrs, Test)

\* [t for t, _ in pairs]
matches_of(zs) == [i \in 1..Len(zs) |-> zs[i].match]

(* --------------------------- the operator ------------------------------- *)

\* what one entry of inp.split(",") can be
Tokens == {"-1", "0", "1", "2", "3", "x"}

\* int(v) where it is defined; int("x") raises ValueError
token_int == [v \in Tokens \ {"x"} |->
                CASE v = "-1" -> -1 [] v = "0" -> 0 [] v = "1" -> 1
                  [] v = "2" -> 2 [] v = "3" -> 3]

is_int(v) == v \in DOMAIN token_int

\* input(): "" is <<>>, and any other line is its comma-separated entries
Inputs == UNION { [1..n -> Tokens] : n \in 0..MaxChoices }

\* seq[i + 1]: the choice itself used as the 0-based index
py_index_off(i, n) == IF 0 <= i + 1 /\ i + 1 < n THEN i + 2 ELSE 0

\* Python's seq[i] for a list of length n: the 1-based position read, or 0
\* for IndexError (a negative i counts from the end)
py_index(i, n) ==
    IF 0 <= i /\ i < n THEN i + 1
    ELSE IF i < 0 /\ i + n >= 0 THEN i + n + 1
    ELSE 0

(* ----------------------- match_lastfm_tracks_for ------------------------- *)

\* a return (or raise) of the call: reject is what it blacklists first
Return(st, res, where, cands) ==
    [status |-> st, result |-> res, tier |-> where, candidates |-> cands,
     asked |-> FALSE, inp |-> <<>>, reject |-> <<>>, err |-> "none"]

\* lines 458-476: the prompt, with mrs the matches of match_ratio_sort in
\* order and answer what input() returns
ask_user(mrs, answer) ==
    LET n == Len(mrs)
        Asked(st, res, where, rej, e) ==
            [status |-> st, result |-> res, tier |-> where, candidates |-> mrs,
             asked |-> TRUE, inp |-> answer, reject |-> rej, err |-> e]
    IN  IF Len(answer) = 0 THEN Asked("CHOICE_REQUIRED", <<>>, "skip", <<>>, "none")
        ELSE IF \E i \in 1..Len(answer) : ~ is_int(answer[i])
        THEN Asked("RAISED", <<>>, "operator", <<>>, "ValueError")
        ELSE LET choices == [i \in 1..Len(answer) |-> token_int[answer[i]]]
             IN  IF /\ \E i \in 1..Len(choices) : choices[i] > 0
                    /\ \A i \in 1..Len(choices) : choices[i] <= n
                 THEN IF \E i \in 1..Len(choices) : py_index(choices[i] - 1, n) = 0
                      THEN Asked("RAISED", <<>>, "operator", <<>>, "IndexError")
                      ELSE Asked("MATCH",
                                 [i \in 1..Len(choices) |->
                                    mrs[py_index(choices[i] - 1, n)]],
                                 "operator", <<>>, "none")
                 ELSE \* blacklist every pair, then fall through to the last return
                      Asked("NO_MATCH", <<>>, "reject", mrs, "none")

\* with_survivors blacklisting the candidates it cannot ask about
with_survivors_rejecting(mrs, acc, interactive) ==
    IF Len(acc) > 0 THEN Return("MATCH", matches_of(acc), "fuzzy", matches_of(mrs))
    ELSE IF ~ interactive
    THEN [Return("CHOICE_REQUIRED", <<>>, "noninteractive", matches_of(mrs))
            EXCEPT !.reject = matches_of(mrs)]
    ELSE Return("NONE", <<>>, "ask", matches_of(mrs))

\* lines 447-479: what is done with a non-empty match_ratio_sort whose
\* acceptable part is acc
with_survivors(mrs, acc, interactive) ==
    IF Len(acc) > 0 THEN Return("MATCH", matches_of(acc), "fuzzy", matches_of(mrs))
    ELSE IF ~ interactive
    THEN Return("CHOICE_REQUIRED", <<>>, "noninteractive", matches_of(mrs))
    ELSE Return("NONE", <<>>, "ask", matches_of(mrs))

\* lines 374-482: the fuzzy tier on match_ratio_sort
fuzzy_tier(mrs, interactive) ==
    IF Len(mrs) = 0 THEN Return("NO_MATCH", <<>>, "nosurvivor", <<>>)
    ELSE with_survivors(mrs, acceptable(mrs), interactive)

\* the exact tier going on to the fuzzy tier whatever the fuzzy flag is
exact_tier_ignoring_flag(t1, exact, interactive, fz) ==
    IF Len(exact) > 0 THEN Return("MATCH", exact, "exact", <<>>)
    ELSE fuzzy_tier(match_ratio_sort(t1), interactive)

\* lines 359-372: the exact tier on the rows of its query
exact_tier(t1, exact, interactive, fz) ==
    IF Len(exact) > 0 THEN Return("MATCH", exact, "exact", <<>>)
    ELSE IF ~ fz THEN Return("NO_MATCH", <<>>, "nofuzzy", <<>>)
    ELSE fuzzy_tier(match_ratio_sort(t1), interactive)

\* lines 346-357: the MusicBrainz tier on the rows of its query
mbid_tier(t1, by_mbid, interactive, fz) ==
    IF Len(by_mbid) > 0 THEN Return("MATCH", by_mbid, "id", <<>>)
    ELSE exact_tier(t1, find_exact(t1), interactive, fz)

\* match_lastfm_tracks_for(track, interactive, fuzzy) up to the prompt: tier
\* "ask" stands for reaching line 458 with interactive set
match_lastfm_tracks_for(t1, interactive, fz) ==
    mbid_tier(t1, find_by_mbid(t1), interactive, fz)

\* what the call can end in: with a prompt, one outcome for each answer
outcomes(r0) ==
    IF r0.tier = "ask" THEN { ask_user(r0.candidates, answer) : answer \in Inputs }
    ELSE {r0}

(* ------------------------------ writes ----------------------------------- *)

\* INSERT INTO match / blacklist (trackid, navidromeid): sqlite3.IntegrityError
\* when the primary key (trackid, navidromeid) is taken or trackid is no
\* track.id (PRAGMA foreign_keys = ON); nothing is written then
can_insert(tbl, pair) ==
    /\ pair \notin tbl
    /\ \E r \in Range(track) : r.id = pair[1]

\* save_match with the two ids in the other order
save_match_swapped(t1, t2) == match \cup {<<t1.id, t2.id>>}

\* blacklist_match with the two ids in the other order
blacklist_match_swapped(t1, t2) == blacklist \cup {<<t1.id, t2.id>>}

\* save_match(t1, t2): the match table after it (commit included)
save_match(t1, t2) == match \cup {<<t2.id, t1.id>>}

\* blacklist_match(t1, t2): the blacklist table after it (commit included)
blacklist_match(t1, t2) == blacklist \cup {<<t2.id, t1.id>>}

(* ---------------------------- command_match ------------------------------ *)

\* command_match starts: the counters are zero and iter_unmatched() is created;
\* what the get-scrobbles run before it returned is gone.
\* cli.py calls m.find_lastfm_tracks_for(track, interactive=args.resolve), a
\* name db.py does not define; the call is read as match_lastfm_tracks_for,
\* whose fuzzy argument the call leaves to the callee, so both values occur.
StartMatch(res, fz) ==
    /\ pc = "idle"
    /\ pc' = "iter"
    /\ resolve' = res
    /\ fuzzy' = fz
    /\ cursor' = 1
    /\ counts' = ZeroCounts
    /\ ingested' = NoCall
    /\ UNCHANGED <<store, cur, status, result, tier, candidates, asked, inp,
                   pending, err, at_call, get, scorer>>

\* the rows of media_file from the cursor on that the query yields now
unmatched_from(c) == { i \in c..Len(MediaFile) : is_unmatched(MediaFile[i]) }

\* for track in m.iter_unmatched(): the next row, track_count += 1
NextTrack ==
    /\ UNCHANGED <<ingested, get, scorer>>
    /\ pc = "iter"
    /\ unmatched_from(cursor) # {}
    /\ cur' = MediaFile[Min(unmatched_from(cursor))]
    /\ cursor' = Min(unmatched_from(cursor)) + 1
    /\ counts' = [counts EXCEPT !.track_count = @ + 1]
    /\ pc' = "call"
    /\ status' = "NONE"
    /\ result' = <<>>
    /\ tier' = "none"
    /\ candidates' = <<>>
    /\ asked' = FALSE
    /\ inp' = <<>>
    /\ pending' = <<>>
    /\ at_call' = [match |-> match, blacklist |-> blacklist]
    /\ UNCHANGED <<store, resolve, fuzzy, err>>

\* the generator is exhausted: the loop ends and the summary is logged
EndOfTracks ==
    /\ UNCHANGED ingested
    /\ pc = "iter"
    /\ unmatched_from(cursor) = {}
    /\ pc' = "done"
    /\ UNCHANGED <<store, resolve, fuzzy, cursor, cur, status, result, tier,
                   candidates, asked, inp, pending, counts, err, at_call, get, scorer>>

\* the call leaves r: with something to blacklist it first runs its loop
Returns(r) ==
    /\ status' = r.status
    /\ result' = r.result
    /\ tier' = r.tier
    /\ candidates' = r.candidates
    /\ asked' = r.asked
    /\ inp' = r.inp
    /\ err' = r.err
    /\ pending' = r.reject
    /\ pc' = IF r.err # "none" THEN "raised"
             ELSE IF Len(r.reject) > 0 THEN "blacklist"
             ELSE "returned"

\* status, matches = m.find_lastfm_tracks_for(track, ...): the call up to its
\* return, its raise, or the start of its blacklisting loop
CallMatcher ==
    /\ UNCHANGED ingested
    /\ pc = "call"
    /\ \E r \in outcomes(match_lastfm_tracks_for(cur, resolve, fuzzy)) : Returns(r)
    /\ UNCHANGED <<store, resolve, fuzzy, cursor, cur, counts, at_call, get, scorer>>

\* for match, _ in match_ratio_sort: self.blacklist_match(track, match); after
\* the last one the call returns
BlacklistNext ==
    /\ UNCHANGED ingested
    /\ pc = "blacklist"
    /\ pending # <<>>
    /\ IF can_insert(blacklist, <<Head(pending).id, cur.id>>)
       THEN /\ blacklist' = blacklist_match(cur, Head(pending))
            /\ pending' = Tail(pending)
            /\ err' = err
            /\ status' = status
            /\ pc' = IF Tail(pending) = <<>> THEN "returned" ELSE "blacklist"
       ELSE /\ blacklist' = blacklist
            /\ pending' = pending
            /\ err' = "IntegrityError"
            /\ status' = "RAISED"
            /\ pc' = "raised"
    /\ UNCHANGED <<track, scrobble, match, resolve, fuzzy, cursor, cur, result,
                   tier, candidates, asked, inp, counts, at_call, get, scorer>>

\* lines 93-103: the counter of the status; MATCH starts the save_match loop
Dispatch ==
    /\ UNCHANGED ingested
    /\ pc = "returned"
    /\ IF status = "NO_MATCH"
       THEN /\ counts' = [counts EXCEPT !.fail_count = @ + 1]
            /\ pending' = <<>>
            /\ pc' = "iter"
       ELSE IF status = "MATCH"
       THEN /\ counts' = [counts EXCEPT !.matched_count = @ + 1]
            /\ pending' = result
            /\ pc' = IF Len(result) = 0 THEN "iter" ELSE "save"
       ELSE /\ counts' = [counts EXCEPT !.uncertain_count = @ + 1]
            /\ pending' = <<>>
            /\ pc' = "iter"
    /\ UNCHANGED <<store, resolve, fuzzy, cursor, cur, status, result, tier,
                   candidates, asked, inp, err, at_call, get, scorer>>

\* for match in matches: m.save_match(track, match)
SaveNext ==
    /\ UNCHANGED ingested
    /\ pc = "save"
    /\ pending # <<>>
    /\ IF can_insert(match, <<Head(pending).id, cur.id>>)
       THEN /\ match' = save_match(cur, Head(pending))
            /\ pending' = Tail(pending)
            /\ err' = err
            /\ pc' = IF Tail(pending) = <<>> THEN "iter" ELSE "save"
       ELSE /\ match' = match
            /\ pending' = pending
            /\ err' = "IntegrityError"
            /\ pc' = "raised"
    /\ UNCHANGED <<track, scrobble, blacklist, resolve, fuzzy, cursor, cur,
                   status, result, tier, candidates, asked, inp, counts, at_call, get, scorer>>

\* the command is over (return 0, or the exception left command_match): its
\* locals are gone
Exit ==
    /\ UNCHANGED <<ingested, get, scorer>>
    /\ pc \in {"done", "raised"}
    /\ pc' = "idle"
    /\ resolve' = FALSE
    /\ fuzzy' = FALSE
    /\ cursor' = 1
    /\ cur' = NoTrack
    /\ status' = "NONE"
    /\ result' = <<>>
    /\ tier' = "none"
    /\ candidates' = <<>>
    /\ asked' = FALSE
    /\ inp' = <<>>
    /\ pending' = <<>>
    /\ counts' = ZeroCounts
    /\ err' = "none"
    /\ at_call' = NoTables
    /\ UNCHANGED store

Next ==
    \/ \E s \in Scrobbles, uts \in 1..MaxUts : add_scrobble_from_api(s, uts)
    \/ \E res \in BOOLEAN, fz \in BOOLEAN : StartMatch(res, fz)
    \/ NextTrack
    \/ EndOfTracks
    \/ CallMatcher
    \/ BlacklistNext
    \/ Dispatch
    \/ SaveNext
    \/ Exit

Spec == Init /\ [][Next]_vars

(* ------------- save_match and blacklist_match called directly ------------ *)

\* a NavidromeTrackEntry whose id is no row of media_file
NotInLibrary ==
    [id |-> <<"n","9">>, title |-> T_Go, artist |-> T_M, album |-> T_U,
     mbz_recording_id |-> NULL]

\* the t1 the two methods are called with
CallLocals == {MediaFile[1], NotInLibrary}

\* the ScrobbleModels ingested between the calls: the track (Go, m, U)
CallScrobbles == { s \in Scrobbles : s.name = T_Go /\ s.artist = T_m }

\* the t2 the two methods are called with: the track that can be in the store
\* and one that never is
CallRemotes ==
    { fuzzy_entry(track_row(s)) :
        s \in { r \in Scrobbles : (r.name = T_Go /\ r.artist = T_m) \/ r.name = T_Got } }

\* m.save_match(t1, t2): the INSERT raises sqlite3.IntegrityError or the row
\* is written and committed
SaveMatchCall(t1, t2) ==
    /\ pc = "idle"
    /\ cur' = t1
    /\ pending' = <<t2>>
    /\ tier' = "save_match"
    /\ IF can_insert(match, <<t2.id, t1.id>>)
       THEN match' = save_match(t1, t2) /\ err' = "none"
       ELSE match' = match /\ err' = "IntegrityError"
    /\ UNCHANGED <<track, scrobble, blacklist, pc, resolve, fuzzy, cursor, status,
                   result, candidates, asked, inp, counts, ingested, at_call, get, scorer>>

\* m.blacklist_match(t1, t2)
BlacklistMatchCall(t1, t2) ==
    /\ pc = "idle"
    /\ cur' = t1
    /\ pending' = <<t2>>
    /\ tier' = "blacklist_match"
    /\ IF can_insert(blacklist, <<t2.id, t1.id>>)
       THEN blacklist' = blacklist_match(t1, t2) /\ err' = "none"
       ELSE blacklist' = blacklist /\ err' = "IntegrityError"
    /\ UNCHANGED <<track, scrobble, match, pc, resolve, fuzzy, cursor, status,
                   result, candidates, asked, inp, counts, ingested, at_call, get, scorer>>

NextCalls ==
    \/ \E s \in CallScrobbles : add_scrobble_from_api(s, 1)
    \/ \E t1 \in CallLocals, t2 \in CallRemotes : SaveMatchCall(t1, t2)
    \/ \E t1 \in CallLocals, t2 \in CallRemotes : BlacklistMatchCall(t1, t2)

\* the store with the two methods called in any order on any arguments
SpecCalls == Init /\ [][NextCalls]_vars

(* ---------------- user.getrecenttracks and get-scrobbles ----------------- *)

\* a JSON object without one of its keys
without(d, k) == [x \in DOMAIN d \ {k} |-> d[x]]

\* a JSON object with another value under one of its keys
with_value(d, k, v) == [x \in DOMAIN d |-> IF x = k THEN v ELSE d[x]]

\* an element of recenttracks.track as the API sends it: the keys of the
\* models (streamable and image, which nothing reads, are left out)
track_json(s, uts) ==
    [mbid |-> s.mbid, name |-> s.name, url |-> s.url,
     artist |-> ("mbid" :> "") @@ ("#text" :> s.artist),
     album |-> ("mbid" :> "") @@ ("#text" :> s.album),
     date |-> [uts |-> uts]]

\* the two tracks the responses are about: (Go, m, U) and (Got, M, U)
GetGo == CHOOSE s \in Scrobbles :
            s.url = "u1" /\ s.name = T_Go /\ s.artist = T_m /\ s.album = T_U

GetGot == CHOOSE s \in Scrobbles : s.url = "u1" /\ s.name = T_Got

\* the longest list of tracks a response holds
MaxFeed == 3

\* the complete elements: two plays of one track and one of the other
PlayedTracks ==
    { track_json(GetGo, "1"), track_json(GetGo, "2"), track_json(GetGot, "1") }

\* the elements that lack a key their model requires, or whose uts is no
\* number: made from the element of (Got, M, U) played at 2
MalformedTracks ==
    LET v == track_json(GetGot, "2") IN
    { without(v, "name"),
      with_value(v, "artist", without(v.artist, "mbid")),
      with_value(v, "album", without(v.album, "#text")),
      with_value(v, "date", without(v.date, "uts")),
      with_value(v, "date", [uts |-> "x"]) }

\* the elements a response can hold
RawTracks == PlayedTracks \cup MalformedTracks

\* the track lists of the pages fetched, one after the other
Feeds == UNION { [1..n -> RawTracks] : n \in 0..MaxFeed }

\* the object from_response returns when a required key is missing
LastFMAPIError == [kind |-> "LastFMAPIError"]

\* int(value) raised inside from_response
ValueError == [kind |-> "ValueError"]

\* Model.from_response for ArtistModel and AlbumModel: mbid is required,
\* #text is popped into _text when it is there
NamedModel_from_response(res) ==
    IF "mbid" \in DOMAIN res
    THEN [kind |-> "Model", mbid |-> res["mbid"],
          text |-> IF "#text" \in DOMAIN res THEN res["#text"] ELSE NULL]
    ELSE LastFMAPIError

\* DateModel.from_response: uts is required and parsed with int()
DateModel_from_response(res) ==
    IF "uts" \notin DOMAIN res THEN LastFMAPIError
    ELSE IF is_int(res["uts"])
         THEN [kind |-> "DateModel", uts |-> token_int[res["uts"]]]
         ELSE ValueError

\* the keys TrackModel requires
TrackKeys == {"mbid", "name", "url", "artist", "album"}

\* TrackModel.from_response: what parse_field returns for artist and album
\* is stored whatever it is, None excepted
TrackModel_from_response(v) ==
    IF ~ (TrackKeys \subseteq DOMAIN v) THEN LastFMAPIError
    ELSE [kind |-> "TrackModel", mbid |-> v["mbid"], name |-> v["name"],
          url |-> v["url"],
          artist |-> NamedModel_from_response(v["artist"]),
          album |-> NamedModel_from_response(v["album"])]

\* ScrobbleModel.from_response: date is required too
ScrobbleModel_from_response(v) ==
    IF ~ (TrackKeys \cup {"date"} \subseteq DOMAIN v) THEN LastFMAPIError
    ELSE IF DateModel_from_response(v["date"]).kind = "ValueError" THEN ValueError
    ELSE [kind |-> "ScrobbleModel", mbid |-> v["mbid"], name |-> v["name"],
          url |-> v["url"],
          artist |-> NamedModel_from_response(v["artist"]),
          album |-> NamedModel_from_response(v["album"]),
          date |-> DateModel_from_response(v["date"])]

\* _RecentTracksContentModel.parse_field for one element of track: a
\* ScrobbleModel, or a TrackModel when building the ScrobbleModel raised
parse_field(v) ==
    IF ScrobbleModel_from_response(v).kind = "ValueError"
    THEN TrackModel_from_response(v)
    ELSE ScrobbleModel_from_response(v)

\* what reading .name of the artist or album field raises
name_raises(m) ==
    IF m.kind = "LastFMAPIError" THEN "AttributeError"
    ELSE IF m.text = NULL THEN "AssertionError"
    ELSE "none"

\* what add_scrobble_from_api(t) raises: track_id reads artist.name and
\* album.name, the second INSERT reads date.uts
raised_by_add(t) ==
    IF name_raises(t.artist) # "none" THEN name_raises(t.artist)
    ELSE IF name_raises(t.album) # "none" THEN name_raises(t.album)
    ELSE IF t.date.kind = "LastFMAPIError" THEN "AttributeError"
    ELSE "none"

\* the fields of a ScrobbleModel that add_scrobble_from_api reads
as_scrobble(t) ==
    [mbid |-> t.mbid, name |-> t.name, artist |-> t.artist.text,
     album |-> t.album.text, url |-> t.url]

\* command_get_scrobbles(args): the connection is opened and the first page
\* fetched; tail says whether the page after the last track is the end of
\* the data or an error response
StartGetScrobbles(greedy, feed, tail) ==
    /\ pc = "idle"
    /\ pc' = "get"
    /\ get' = [feed |-> feed, tail |-> tail, greedy |-> greedy, pos |-> 1,
               rc |-> "none", stop |-> FALSE,
               before |-> [track |-> track, scrobble |-> DOMAIN scrobble]]
    /\ err' = "none"
    /\ ingested' = NoCall
    /\ UNCHANGED <<store, resolve, fuzzy, cursor, cur, status, result, tier,
                   candidates, asked, inp, pending, counts, at_call, scorer>>

\* one turn of `for s in api.get_recenttracks(...)`: an element that is no
\* ScrobbleModel is not yielded; add_scrobble_from_api(s) raises (the with
\* block rolls back what it had not committed) or writes and commits; the
\* command returns 0 when the scrobble was known and --greedy is not given
NextScrobble ==
    /\ pc = "get"
    /\ get.pos <= Len(get.feed)
    /\ LET t == parse_field(get.feed[get.pos]) IN
       IF t.kind # "ScrobbleModel"
       THEN /\ get' = [get EXCEPT !.pos = @ + 1]
            /\ UNCHANGED <<track, scrobble, pc, err, ingested>>
       ELSE IF raised_by_add(t) # "none"
       THEN /\ get' = [get EXCEPT !.pos = @ + 1, !.rc = "raised"]
            /\ pc' = "got"
            /\ err' = raised_by_add(t)
            /\ UNCHANGED <<track, scrobble, ingested>>
       ELSE /\ track' = insert_track(track, track_row(as_scrobble(t)))
            /\ scrobble' = insert_scrobble(scrobble,
                               <<track_id(as_scrobble(t)), t.date.uts>>)
            /\ ingested' = [s |-> as_scrobble(t), prev |-> ingested.s,
                            uts |-> t.date.uts,
                            new |-> is_new_scrobble(as_scrobble(t), t.date.uts)]
            /\ IF ~ is_new_scrobble(as_scrobble(t), t.date.uts) /\ ~ get.greedy
               THEN /\ get' = [get EXCEPT !.pos = @ + 1, !.rc = "0", !.stop = TRUE]
                    /\ pc' = "got"
               ELSE /\ get' = [get EXCEPT !.pos = @ + 1]
                    /\ pc' = pc
            /\ err' = err
    /\ UNCHANGED <<match, blacklist, resolve, fuzzy, cursor, cur, status, result,
                   tier, candidates, asked, inp, pending, counts, at_call, scorer>>

\* get_recenttracks has no track left: it returns at the last page, and the
\* command returns 0, or it raises the error response, which the command
\* catches to return 1
EndOfPages ==
    /\ pc = "get"
    /\ get.pos > Len(get.feed)
    /\ pc' = "got"
    /\ IF get.tail = "error"
       THEN get' = [get EXCEPT !.rc = "1"] /\ err' = "LastFMAPIError"
       ELSE get' = [get EXCEPT !.rc = "0"] /\ err' = err
    /\ UNCHANGED <<store, resolve, fuzzy, cursor, cur, status, result, tier,
                   candidates, asked, inp, pending, counts, ingested, at_call, scorer>>

\* the process is over
ExitGetScrobbles ==
    /\ pc = "got"
    /\ pc' = "idle"
    /\ get' = NoGet
    /\ err' = "none"
    /\ ingested' = NoCall
    /\ UNCHANGED <<store, resolve, fuzzy, cursor, cur, status, result, tier,
                   candidates, asked, inp, pending, counts, at_call, scorer>>

NextGet ==
    \/ \E greedy \in BOOLEAN, feed \in Feeds, tail \in {"end", "error"} :
          StartGetScrobbles(greedy, feed, tail)
    \/ NextScrobble
    \/ EndOfPages
    \/ ExitGetScrobbles

\* the store with get-scrobbles run any number of times on any responses
SpecGet == Init /\ [][NextGet]_vars

(* --------------------------- the ratio alone ----------------------------- *)

\* the characters and the greatest length of the texts compared
Alphabet == {"a", "b", "c"}

MaxLen == 3

Texts == UNION { [1..n -> Alphabet] : n \in 0..MaxLen }

\* any two texts, nothing compared yet
InitRatio ==
    /\ InitStore
    /\ scorer \in { [a |-> a, b |-> b, ab |-> <<>>, ba |-> <<>>] : a \in Texts, b \in Texts }

\* SequenceMatcher(None, a, b).ratio()
CallRatio ==
    /\ scorer.ab = <<>>
    /\ scorer' = [scorer EXCEPT !.ab = ratio(scorer.a, scorer.b)]
    /\ UNCHANGED <<store, pc, resolve, fuzzy, cursor, cur, status, result, tier,
                   candidates, asked, inp, pending, counts, err, ingested,
                   at_call, get>>

\* SequenceMatcher(None, b, a).ratio()
CallRatioSwapped ==
    /\ scorer.ba = <<>>
    /\ scorer' = [scorer EXCEPT !.ba = ratio(scorer.b, scorer.a)]
    /\ UNCHANGED <<store, pc, resolve, fuzzy, cursor, cur, status, result, tier,
                   candidates, asked, inp, pending, counts, err, ingested,
                   at_call, get>>

NextRatio ==
    \/ CallRatio
    \/ CallRatioSwapped

\* the ratio applied to every two texts, in both orders
SpecRatio == InitRatio /\ [][NextRatio]_vars

(* ------------------------------ claims ----------------------------------- *)

\* the call for cur has been made (tier is reset with every new track)
Called == tier # "none"

\* cur has a row in match
HasMatchRow(t1) == \E m \in match : m[2] = t1.id

\* every candidate of the call is on the blacklist for cur
AllBlacklisted == \A i \in DOMAIN candidates : <<candidates[i].id, cur.id>> \in blacklist

\* the answer is a list of indices that are all within 1..N
ValidSelection ==
    /\ Len(inp) > 0
    /\ \A i \in DOMAIN inp : is_int(inp[i]) /\ token_int[inp[i]] \in 1..Len(candidates)

\* the aggregate ratio of candidate c exceeds min_ratio_all
Above(c) == ratio_gt(matcher_for(cur, c), min_ratio_all[1], min_ratio_all[2])

\* C1: when the local track has a MusicBrainz id and the store has remote
\* tracks with that id, the call returns MATCH with exactly those tracks,
\* from the identifier tier, without computing candidates or asking; a local
\* track without a MusicBrainz id is never matched by the identifier tier.
C1_IdentifierTier ==
    Called =>
        LET same == { r \in Range(track) :
                        cur.mbz_recording_id # NULL /\ r.mbid = cur.mbz_recording_id }
        IN  /\ same # {} =>
                /\ status = "MATCH"
                /\ tier = "id"
                /\ Range(result) = same
                /\ ~ asked
                /\ candidates = <<>>
            /\ cur.mbz_recording_id = NULL => tier # "id"

\* the identifier tier returned two tracks, one of them with another title
C1_Witness ==
    /\ pc = "returned"
    /\ tier = "id"
    /\ Len(result) = 2
    /\ \E i \in DOMAIN result : lower(result[i].title) # lower(cur.title)

\* C2 (as claimed): when the identifier tier yields nothing, every remote
\* track whose title, artist and album equal the local track's without regard
\* to case is returned as MATCH by the exact tier.
C2_ExactIgnoresCase ==
    (Called /\ tier # "id") =>
        LET ci == { r \in Range(track) :
                      /\ lower(r.title) = lower(cur.title)
                      /\ lower(r.artist) = lower(cur.artist)
                      /\ r.album # NULL
                      /\ cur.album # NULL
                      /\ lower(r.album) = lower(cur.album) }
        IN  ci # {} => status = "MATCH" /\ tier = "exact" /\ Range(result) = ci

\* C3: no pair that was on the blacklist when the call began is among the
\* fuzzy candidates of the call (the list that is printed) or in a result of
\* the fuzzy tier.
C3_BlacklistedNeverCandidate ==
    Called =>
        /\ \A i \in DOMAIN candidates :
              <<candidates[i].id, cur.id>> \notin at_call.blacklist
        /\ tier \in {"fuzzy", "operator"} =>
              \A i \in DOMAIN result : <<result[i].id, cur.id>> \notin at_call.blacklist

\* the operator is shown one candidate while a remote track that passes both
\* floors is left out because it was on the blacklist
C3_Witness ==
    /\ pc = "returned"
    /\ asked
    /\ Len(candidates) = 1
    /\ \E r \in Range(track) :
          /\ <<r.id, cur.id>> \in at_call.blacklist
          /\ ratio_gt(min_match_ratio(cur, fuzzy_entry(r)),
                      min_ratio_each[1], min_ratio_each[2])
          /\ enough_overlap(cur, fuzzy_entry(r))

\* C4: the loop is given a track only if it has no row in match now, every
\* row of media_file it passes over has one, and when the generator ends
\* every remaining row has one.
C4_UnmatchedOnly ==
    [][ /\ (pc = "iter" /\ pc' = "call") =>
              /\ ~ HasMatchRow(cur')
              /\ cur' = MediaFile[cursor' - 1]
              /\ \A i \in cursor..(cursor' - 2) : HasMatchRow(MediaFile[i])
        /\ (pc = "iter" /\ pc' = "done") =>
              \A i \in cursor..Len(MediaFile) : HasMatchRow(MediaFile[i]) ]_vars

\* the first track a run is given is the second of media_file, the first
\* having been matched by an earlier run
C4_Witness ==
    /\ pc = "call"
    /\ counts.track_count = 1
    /\ cur = MediaFile[2]
    /\ HasMatchRow(MediaFile[1])

\* C5: when the loop goes on to the next track (or ends) after a MATCH, a
\* match row of every returned track is in the table.
C5_MatchPersisted ==
    (pc \in {"iter", "done"} /\ status = "MATCH") =>
        \A i \in DOMAIN result : <<result[i].id, cur.id>> \in match

\* the operator chose two candidates and both have been saved
C5_Witness ==
    /\ pc = "iter"
    /\ status = "MATCH"
    /\ tier = "operator"
    /\ Cardinality(Range(result)) = 2

\* C6: after the answer 0 the call returns NO_MATCH and nothing else, every
\* candidate is on the blacklist, and the match table is as it was.
C6_RejectAll ==
    (asked /\ inp = <<"0">> /\ pc \in {"returned", "iter", "done"}) =>
        /\ status = "NO_MATCH"
        /\ result = <<>>
        /\ Len(candidates) > 0
        /\ AllBlacklisted
        /\ match = at_call.match

\* two candidates were rejected with 0
C6_Witness ==
    /\ pc = "returned"
    /\ asked
    /\ inp = <<"0">>
    /\ Len(candidates) = 2

\* C7 (as claimed): an answer that is not a list of indices within 1..N ends
\* like reject-all: no exception, NO_MATCH, nothing returned, every candidate
\* on the blacklist.
C7_InvalidIsRejectAll ==
    (asked /\ Len(inp) > 0 /\ ~ ValidSelection /\ pc # "blacklist") =>
        /\ err = "none"
        /\ status = "NO_MATCH"
        /\ result = <<>>
        /\ AllBlacklisted

\* C8: after an answer that is a list of indices within 1..N the call returns
\* MATCH with the candidates at those places of the printed list, in the
\* order of the answer.
C8_SelectionAccepted ==
    (asked /\ ValidSelection) =>
        /\ status = "MATCH"
        /\ Len(result) = Len(inp)
        /\ \A i \in DOMAIN inp : result[i] = candidates[token_int[inp[i]]]

\* the second of two candidates was chosen
C8_Witness ==
    /\ pc = "returned"
    /\ asked
    /\ inp = <<"2">>
    /\ Len(candidates) = 2
    /\ status = "MATCH"

\* C9: with CHOICE_REQUIRED the match and blacklist tables are as they were
\* when the call began, the track is still unmatched, and the candidates the
\* tables give for it now are the ones of the call.
C9_ChoiceRequiredWritesNothing ==
    (Called /\ status = "CHOICE_REQUIRED") =>
        /\ match = at_call.match
        /\ blacklist = at_call.blacklist
        /\ ~ HasMatchRow(cur)
        /\ Len(candidates) > 0
        /\ matches_of(match_ratio_sort(cur)) = candidates

\* the operator skipped two candidates and the loop has moved on
C9_Witness ==
    /\ pc = "iter"
    /\ status = "CHOICE_REQUIRED"
    /\ asked
    /\ Len(candidates) = 2

\* C10: when the fuzzy tier has a candidate above min_ratio_all, the call
\* returns MATCH with exactly the candidates above it and does not ask.
C10_AutoAccept ==
    (Called /\ tier \notin {"id", "exact", "nofuzzy"}
        /\ \E i \in DOMAIN candidates : Above(candidates[i])) =>
        /\ status = "MATCH"
        /\ tier = "fuzzy"
        /\ ~ asked
        /\ Range(result) = { c \in Range(candidates) : Above(c) }

\* two candidates above the threshold were both returned, with --resolve set
C10_Witness ==
    /\ pc = "returned"
    /\ tier = "fuzzy"
    /\ resolve
    /\ Cardinality(Range(result)) = 2

\* the call got as far as the filter of match_ratio_sort
Filtered == tier \in {"nosurvivor", "fuzzy", "noninteractive", "skip", "operator", "reject"}

\* the two texts of field pair k, as they are compared
compared(t1, t2, k) ==
    <<lower(field_pairs(t1, t2)[k][1]), lower(field_pairs(t1, t2)[k][2])>>

\* the texts a and b pass the field ratio floor and the overlap floor
floors(a, b) ==
    /\ ratio_gt(ratio(a, b), min_ratio_each[1], min_ratio_each[2])
    /\ longest_common_run(a, b) >= Min({Len(a), Len(b), min_overlap})

\* C11: the candidates that survive the filter are exactly the rows of the
\* fuzzy query that were not blacklisted for the local track when the call
\* began and whose title pair, artist pair and album pair each, taken alone,
\* have a ratio strictly above min_ratio_each and a longest common run of at
\* least min(len(local), len(remote), min_overlap); the aggregate ratio
\* takes no part in it.
C11_SurvivesIffFloors ==
    Filtered =>
        Range(candidates) =
            { c \in Range(find_by_any_field(cur)) :
                /\ <<c.id, cur.id>> \notin at_call.blacklist
                /\ \A k \in 1..3 :
                      floors(compared(cur, c, k)[1], compared(cur, c, k)[2]) }

\* one row of the query survived and another, whose aggregate ratio is above
\* min_ratio_all, was discarded for a single field
C11_Witness ==
    /\ Filtered
    /\ candidates # <<>>
    /\ \E c \in Range(find_by_any_field(cur)) :
          /\ c \notin Range(candidates)
          /\ <<c.id, cur.id>> \notin at_call.blacklist
          /\ Above(c)

\* the prefix of t before the earliest start of "feat. " or "ft. ", t itself
\* when it has neither
prefix_before_first_marker(t) ==
    IF Occurrences(FEAT, t) \cup Occurrences(FT, t) = {} THEN t
    ELSE SubSeq(t, 1, Min(Occurrences(FEAT, t) \cup Occurrences(FT, t)) - 1)

\* C12 (as claimed): the feature trimming of every title and artist the
\* fuzzy tier compares keeps the prefix before the FIRST occurrence of
\* "feat. " or "ft. ", also when a marker occurs more than once.
C12_TrimsAtFirstMarker ==
    Filtered =>
        \A c \in Range(find_by_any_field(cur)) :
            \A t \in {cur.title, cur.artist, c.title, c.artist} :
                trim_feature(t) = prefix_before_first_marker(t)

\* the normalization of a field: null as the empty text, feature trimming,
\* then lower-casing
normalized(x) == lower(trim_feature(or_empty(x)))

\* title + artist + album of t, each normalized
normalized_concat(t) == normalized(t.title) \o normalized(t.artist) \o normalized(t.album)

\* C13 (as claimed): for every row the fuzzy tier scores, the album pair of
\* the field floors is the pair of the trimmed, lower-cased albums, just as
\* the title pair and the artist pair are, and the aggregate ratio is the
\* ratio of the concatenations of the three normalized fields.
C13_SameNormalizationForAlbum ==
    Filtered =>
        \A c \in Range(find_by_any_field(cur)) :
            /\ compared(cur, c, 1) = <<normalized(cur.title), normalized(c.title)>>
            /\ compared(cur, c, 2) = <<normalized(cur.artist), normalized(c.artist)>>
            /\ compared(cur, c, 3) = <<normalized(cur.album), normalized(c.album)>>
            /\ matcher_for(cur, c) = ratio(normalized_concat(cur), normalized_concat(c))

\* the place of the remote track c in the store's result order
store_position(c) == CHOOSE i \in DOMAIN track : track[i].id = c.id

\* C14: the candidates left by the filter are in non-increasing order of
\* their aggregate ratio, and two of them with the same aggregate ratio are
\* in the order in which the store returned them.
C14_RankedByAggregate ==
    Filtered =>
        \A i, j \in DOMAIN candidates :
            i < j =>
                /\ ratio_le(matcher_for(cur, candidates[j]), matcher_for(cur, candidates[i]))
                /\ ratio_le(matcher_for(cur, candidates[i]), matcher_for(cur, candidates[j]))
                      => store_position(candidates[i]) < store_position(candidates[j])

\* two candidates survived and the one the store returned second is first
C14_Witness ==
    /\ Filtered
    /\ Len(candidates) = 2
    /\ store_position(candidates[1]) > store_position(candidates[2])

\* the pair the last direct call was made with
called_pair == <<Head(pending).id, cur.id>>

\* C15 (as claimed): save_match and blacklist_match are idempotent: no call
\* whose pair is in the relation it writes to has raised, whether the pair
\* was new or was there already.
C15_Idempotent ==
    /\ (tier = "save_match" /\ called_pair \in match) => err = "none"
    /\ (tier = "blacklist_match" /\ called_pair \in blacklist) => err = "none"

\* C16 (as claimed): a call of save_match or blacklist_match whose remote id
\* is no row of track, or whose local id is no row of the library, has
\* raised the constraint violation and its pair is not in the relation.
C16_UnknownIdRejected ==
    (/\ tier \in {"save_match", "blacklist_match"}
     /\ \/ ~ \E r \in Range(track) : r.id = Head(pending).id
        \/ ~ \E t1 \in Range(MediaFile) : t1.id = cur.id)
    => /\ err = "IntegrityError"
       /\ tier = "save_match" => called_pair \notin match
       /\ tier = "blacklist_match" => called_pair \notin blacklist

\* the match rows of the set accepted for cur, and the blacklist rows of the
\* set rejected for it
accepted_rows == { <<result[i].id, cur.id>> : i \in DOMAIN result }

rejected_rows == { <<candidates[i].id, cur.id>> : i \in DOMAIN candidates }

\* C17 (as claimed): in every committed state of the store, the match rows
\* of an accepted set are all there or none is, and so are the blacklist
\* rows of a rejected set.
C17_SetWrittenAtomically ==
    /\ status = "MATCH" => (accepted_rows \cap match) \in {{}, accepted_rows}
    /\ tier = "reject" => (rejected_rows \cap blacklist) \in {{}, rejected_rows}

\* C18 (as claimed): an error raised while one track is evaluated or its
\* result is recorded does not end command_match: the command is still in its
\* loop, or has ended it with the summary.
C18_FailureNeverAborts ==
    err # "none" => pc \in {"iter", "call", "blacklist", "returned", "save", "done"}

\* the rows of track with the id of the ScrobbleModel s
track_rows_of(tbl, s) == { i \in DOMAIN tbl : tbl[i].id = track_id(s) }

\* C19: every call of add_scrobble_from_api leaves exactly one scrobble row
\* of its event and one track row of its track; it returns True exactly when
\* the event was not in the store before, and a call that returns False
\* leaves the four tables as they were.
C19_IngestIdempotent ==
    [][ (ingested' # ingested /\ ingested' # NoCall) =>
            /\ ingested'.new = (<<track_id(ingested'.s), ingested'.uts>> \notin DOMAIN scrobble)
            /\ <<track_id(ingested'.s), ingested'.uts>> \in DOMAIN scrobble'
            /\ scrobble'[<<track_id(ingested'.s), ingested'.uts>>] = 1
            /\ Cardinality(track_rows_of(track', ingested'.s)) = 1
            /\ ~ ingested'.new => store' = store ]_vars

\* an event was ingested a second time and reported as not new
C19_Witness ==
    /\ ingested # NoCall
    /\ ~ ingested.new
    /\ Len(track) = 1
    /\ scrobble[<<track_id(ingested.s), ingested.uts>>] = 1

\* two ScrobbleModels with the same mbid, name, artist.name and album.name
same_identity(s1, s2) ==
    /\ s1.mbid = s2.mbid
    /\ s1.name = s2.name
    /\ s1.artist = s2.artist
    /\ s1.album = s2.album

\* the rows of track that hold the four fields of s
rows_holding(s) ==
    { i \in DOMAIN track :
        /\ track[i].title = s.name
        /\ track[i].artist = s.artist
        /\ track[i].album = or_none(s.album)
        /\ track[i].mbid = or_none(s.mbid) }

\* C20: any two ScrobbleModels that agree on mbid, name, artist name and
\* album name have the same track id whatever their other fields are, and
\* the track table never holds two rows of the same four fields, and after a
\* call of add_scrobble_from_api it holds exactly one row of the id.
C20_IdOfFourFields ==
    /\ \A s \in Scrobbles : Cardinality(rows_holding(s)) <= 1
    /\ ingested # NoCall =>
          /\ Cardinality(track_rows_of(track, ingested.s)) = 1
          /\ \A s \in Scrobbles :
                same_identity(s, ingested.s) => track_id(s) = track_id(ingested.s)

\* the same track was ingested twice in a row with two different urls and
\* has one row
C20_Witness ==
    /\ ingested # NoCall
    /\ ingested.prev # NoScrobble
    /\ same_identity(ingested.prev, ingested.s)
    /\ ingested.prev.url # ingested.s.url
    /\ Cardinality(rows_holding(ingested.s)) = 1

\* C21 (as claimed): the track id identifies the track: after a call of
\* add_scrobble_from_api the rows of its track id are the rows that hold its
\* mbid, title, artist and album, so that the play event is attributed to a
\* track row of its own four fields and to no other.
C21_IdIdentifiesTrack ==
    ingested # NoCall => track_rows_of(track, ingested.s) = rows_holding(ingested.s)

\* the rows of the fuzzy query for cur that were not blacklisted when the call
\* began and pass both floors in every field
survivors_at_call ==
    { c \in Range(find_by_any_field(cur)) :
        /\ <<c.id, cur.id>> \notin at_call.blacklist
        /\ \A k \in 1..3 : floors(compared(cur, c, k)[1], compared(cur, c, k)[2]) }

\* C22: when the identifier tier and the exact tier find nothing and either
\* fuzzy matching is off or no row survives the filters, the call returns
\* NO_MATCH with no track, without candidates or a prompt, and the match and
\* blacklist tables are as they were when it began; with fuzzy matching off
\* it returns before the fuzzy tier.
C22_NoMatchWritesNothing ==
    (/\ Called
     /\ Len(find_by_mbid(cur)) = 0
     /\ Len(find_exact(cur)) = 0
     /\ ~ fuzzy \/ survivors_at_call = {})
    => /\ status = "NO_MATCH"
       /\ result = <<>>
       /\ ~ asked
       /\ candidates = <<>>
       /\ match = at_call.match
       /\ blacklist = at_call.blacklist
       /\ ~ fuzzy => tier = "nofuzzy"
       /\ fuzzy => tier = "nosurvivor"

\* fuzzy matching was off and the call returned NO_MATCH although a row would
\* have survived the filters
C22_Witness ==
    /\ pc = "returned"
    /\ ~ fuzzy
    /\ tier = "nofuzzy"
    /\ survivors_at_call # {}

\* C23: no step of an ingestion or of a reconciliation run removes or
\* changes a row of match, blacklist, track or scrobble, and a row is added
\* to match only by the save loop of a call that returned MATCH, for a track
\* that call returned.
C23_DecisionsNeverRegress ==
    [][ /\ match \subseteq match'
        /\ blacklist \subseteq blacklist'
        /\ Len(track) <= Len(track')
        /\ \A i \in DOMAIN track : track'[i] = track[i]
        /\ \A r \in DOMAIN scrobble : r \in DOMAIN scrobble' /\ scrobble'[r] = scrobble[r]
        /\ match' # match =>
              /\ pc = "save"
              /\ status = "MATCH"
              /\ (match' \ match) \subseteq accepted_rows ]_vars

\* a track was ingested after a run had accepted one pair and rejected another
C23_Witness ==
    /\ pc = "idle"
    /\ ingested # NoCall
    /\ match # {}
    /\ blacklist # {}

\* an element of the response lacks a key at some level: of the track, or of
\* its artist, album or date
missing_key(v) ==
    IF ~ (TrackKeys \cup {"date"} \subseteq DOMAIN v) THEN TRUE
    ELSE \/ ~ ({"mbid", "#text"} \subseteq DOMAIN v["artist"])
         \/ ~ ({"mbid", "#text"} \subseteq DOMAIN v["album"])
         \/ "uts" \notin DOMAIN v["date"]

\* C24: when get-scrobbles reaches a remote record that lacks a mandatory
\* field at any level, the step writes no track row and no play-event row
\* and ends in the typed error LastFMAPIError (told apart from the end of
\* the data, and no untyped exception).
C24_MalformedRejectedTyped ==
    [][ (pc = "get" /\ get.pos <= Len(get.feed) /\ missing_key(get.feed[get.pos]))
        => /\ UNCHANGED <<track, scrobble>>
           /\ err' = "LastFMAPIError" ]_vars

\* the fraction r is 1.0
is_one(r) == r[1] = r[2] /\ r[2] > 0

\* the fraction r lies in [0, 1]
in_unit_interval(r) == 0 <= r[1] /\ r[1] <= r[2] /\ r[2] > 0

\* C25 as claimed: the ratio is symmetric and reflexive and lies in [0, 1]:
\* the two orders of the arguments give the same ratio, a text compared with
\* itself gives 1.0 (the empty text too), and every ratio is in [0, 1].
C25_SymmetricReflexive ==
    (scorer.ab # <<>> /\ scorer.ba # <<>>) =>
        /\ scorer.ab[1] * scorer.ba[2] = scorer.ba[1] * scorer.ab[2]
        /\ scorer.a = scorer.b => is_one(scorer.ab)
        /\ in_unit_interval(scorer.ab) /\ in_unit_interval(scorer.ba)

\* C25 as amended: the ratio is reflexive and lies in [0, 1]: a text compared
\* with itself gives 1.0 (the empty text too) and every ratio, in either
\* order of the arguments, is in [0, 1]; the two orders may give different
\* ratios.
C25_ReflexiveInRange ==
    /\ scorer.ab # <<>> =>
          /\ in_unit_interval(scorer.ab)
          /\ scorer.a = scorer.b => is_one(scorer.ab)
    /\ scorer.ba # <<>> =>
          /\ in_unit_interval(scorer.ba)
          /\ scorer.a = scorer.b => is_one(scorer.ba)

\* the empty text has been compared with itself, in both orders
C25_Witness ==
    /\ scorer.a = <<>> /\ scorer.b = <<>>
    /\ scorer.ab = <<1, 1>> /\ scorer.ba = <<1, 1>>


\* the elements of the response that are complete play events
play_events == { i \in 1..Len(get.feed) :
                   /\ parse_field(get.feed[i]).kind = "ScrobbleModel"
                   /\ raised_by_add(parse_field(get.feed[i])) = "none" }

\* the scrobble row of a play event
event_row(i) ==
    <<track_id(as_scrobble(parse_field(get.feed[i]))),
      parse_field(get.feed[i]).date.uts>>

\* the play event was in the store when the loop came to it: from before the
\* command, or from an earlier element of the same response
known_at(i) ==
    \/ event_row(i) \in get.before.scrobble
    \/ \E j \in play_events : j < i /\ event_row(j) = event_row(i)

\* C26: while and after get-scrobbles runs, every play event the loop has
\* taken is in the store and no play event after them has been written;
\* without --greedy the loop goes past no known play event: the first one
\* it takes is the last element taken, and the command has returned 0 there;
\* with --greedy the command never stops at a known event, and when it
\* returns 0 it has taken every element.
C26_StopsAtFirstKnown ==
    pc \in {"get", "got"} =>
        /\ \A i \in play_events : i < get.pos => event_row(i) \in DOMAIN scrobble
        /\ \A i \in play_events :
              (i >= get.pos /\ event_row(i) \in DOMAIN scrobble) =>
                  \/ event_row(i) \in get.before.scrobble
                  \/ \E j \in play_events : j < get.pos /\ event_row(j) = event_row(i)
        /\ ~ get.greedy =>
              \A i \in play_events : (i < get.pos /\ known_at(i)) =>
                  /\ i = get.pos - 1
                  /\ get.stop /\ pc = "got" /\ get.rc = "0"
        /\ get.stop => /\ ~ get.greedy
                       /\ get.pos - 1 \in play_events
                       /\ known_at(get.pos - 1)
        /\ (get.greedy /\ pc = "got" /\ get.rc = "0") => get.pos > Len(get.feed)

\* a run without --greedy stopped at the second of three play events, the
\* first written by this run and the third not in the store
C26_Witness ==
    /\ pc = "got" /\ get.stop /\ get.rc = "0"
    /\ Len(get.feed) = 3 /\ get.pos = 3
    /\ play_events = {1, 2, 3}
    /\ event_row(1) \notin get.before.scrobble
    /\ event_row(1) \in DOMAIN scrobble
    /\ event_row(2) \in get.before.scrobble
    /\ event_row(3) \notin DOMAIN scrobble


\* C27: no pair of a remote track and a local track is in the match table
\* and in the blacklist table at once.
C27_MatchAndBlacklistDisjoint == match \cap blacklist = {}

\* one local track has a rejected remote track and an accepted one
C27_Witness ==
    \E b \in blacklist, m \in match : b[2] = m[2] /\ b[1] # m[1]

\* C28: a local track with a null album is never returned a track by the
\* exact tier; when the fuzzy tier scores it, a remote track with a null
\* album too passes both floors on the album pair (two empty texts), and a
\* remote track with an album fails the ratio floor and does not survive.
C28_NullAlbumNeverExact ==
    (Called /\ cur.album = NULL) =>
        /\ tier # "exact"
        /\ status = "MATCH" => tier \in {"id", "fuzzy", "operator"}
        /\ Filtered =>
              \A c \in Range(find_by_any_field(cur)) :
                  /\ c.album = NULL => floors(compared(cur, c, 3)[1], compared(cur, c, 3)[2])
                  /\ c.album # NULL => c \notin Range(candidates)

\* the local track without album was matched by the fuzzy tier to a remote
\* track of its title and artist that has no album either
C28_Witness ==
    /\ pc = "returned"
    /\ cur.album = NULL
    /\ tier = "fuzzy"
    /\ \E i \in DOMAIN result :
          /\ result[i].album = NULL
          /\ result[i].title = cur.title
          /\ result[i].artist = cur.artist

====
